---- MODULE Spec2Model ----
(***************************************************************************)
(* Model of the client side of jupyterlab_doc_reader_extension:           *)
(* DocReaderWidget (src/src/widget.ts) as a state machine per widget       *)
(* instance, with the pure helpers _base64ToBlob and _escapeHtml computed  *)
(* on sequences of characters and bytes; the plugin's activate             *)
(* (src/src/index.ts) on a document registry; and the extension detection  *)
(* of the unit tests.  Each part has its own specification and leaves the  *)
(* variables of the others alone.                                          *)
(*                                                                         *)
(* A JavaScript string is a sequence of one-character strings.  A          *)
(* JavaScript primitive is a record tagged by its typeof; an object is a   *)
(* record of its class and properties.                                     *)
(***************************************************************************)
EXTENDS Integers, Sequences, FiniteSets, TLC

(***************************************************************************)
(* Bounds                                                                  *)
(***************************************************************************)
\* number of DocReaderWidget instances the factory creates
NumWidgets == 2
\* number of dispose() calls made on one widget
MaxDisposeCalls == 2
\* length of the byte sequences pushed through the base64 round trip
MaxBytes == 3
\* longest text passed to _escapeHtml on its own
MaxText == 3
\* longest path, beside the paths of the unit tests, given to the detection
MaxPath == 4
MaxModelCalls == 3

Widgets == 1..NumWidgets

(***************************************************************************)
(* JavaScript values                                                       *)
(***************************************************************************)
Undefined == [t |-> "undefined"]
Null == [t |-> "null"]
Str(s) == [t |-> "string", s |-> s]
Bool(b) == [t |-> "boolean", b |-> b]

\* the property names the widget reads, in serialisation order
FieldNames == <<"success", "pdf_data", "filename", "error", "message",
                "error_type", "traceback", "file_path", "full_path">>

\* an object of class cls whose listed properties are set and all others absent
Obj(cls, props) ==
    [f \in {"class"} \cup {FieldNames[i] : i \in 1..Len(FieldNames)} |->
        IF f = "class" THEN Str(cls)
        ELSE IF f \in DOMAIN props THEN props[f] ELSE Undefined]

IsObject(v) == "class" \in DOMAIN v
TypeOf(v) == IF IsObject(v) THEN "object" ELSE v.t
ClassOf(v) == IF IsObject(v) THEN v.class.s ELSE "none"

\* v?.f : property f of v, undefined for undefined, null and primitives
Get(v, f) == IF IsObject(v) THEN v[f] ELSE Undefined

\* ToBoolean(v)
Truthy(v) ==
    IF IsObject(v) THEN TRUE
    ELSE IF v.t = "string" THEN v.s # <<>>
    ELSE IF v.t = "boolean" THEN v.b
    ELSE FALSE

(***************************************************************************)
(* JSON text of the values the widget handles                              *)
(***************************************************************************)
\* the characters of a property name (names are letters and underscores)
KeyChars(f) ==
    CASE f = "success" -> <<"s","u","c","c","e","s","s">>
      [] f = "pdf_data" -> <<"p","d","f","_","d","a","t","a">>
      [] f = "filename" -> <<"f","i","l","e","n","a","m","e">>
      [] f = "error" -> <<"e","r","r","o","r">>
      [] f = "message" -> <<"m","e","s","s","a","g","e">>
      [] f = "error_type" -> <<"e","r","r","o","r","_","t","y","p","e">>
      [] f = "traceback" -> <<"t","r","a","c","e","b","a","c","k">>
      [] f = "file_path" -> <<"f","i","l","e","_","p","a","t","h">>
      [] f = "full_path" -> <<"f","u","l","l","_","p","a","t","h">>
      [] f = "path" -> <<"p","a","t","h">>
      [] f = "response" -> <<"r","e","s","p","o","n","s","e">>

Quote(s) == <<"\"">> \o s \o <<"\"">>

\* JSON text of a primitive (the strings of the model need no escapes)
Chars(v) == IF v.t = "string" THEN Quote(v.s)
            ELSE IF v.t = "boolean"
                 THEN (IF v.b THEN <<"t","r","u","e">> ELSE <<"f","a","l","s","e">>)
            ELSE <<"n","u","l","l">>

\* properties JSON.stringify visits: own enumerable ones that are not
\* undefined; the message of an Error is not enumerable
Enumerable(v, f) ==
    /\ v[f] # Undefined
    /\ ~(ClassOf(v) # "Object" /\ f = "message")

RECURSIVE Members(_, _, _)
Members(v, i, first) ==
    IF i > Len(FieldNames) THEN <<>>
    ELSE IF Enumerable(v, FieldNames[i])
         THEN (IF first THEN <<>> ELSE <<",">>)
              \o Quote(KeyChars(FieldNames[i])) \o <<":">> \o Chars(v[FieldNames[i]])
              \o Members(v, i + 1, FALSE)
         ELSE Members(v, i + 1, first)

\* JSON.stringify(v) as a JavaScript value (undefined for undefined); a
\* ResponseError also carries its Response object, serialised as {}
JSONStringify(v) ==
    IF IsObject(v)
    THEN IF ClassOf(v) = "ResponseError"
         THEN Str(<<"{">> \o Quote(KeyChars("response")) \o <<":","{","}">>
                  \o Members(v, 1, FALSE) \o <<"}">>)
         ELSE Str(<<"{">> \o Members(v, 1, TRUE) \o <<"}">>)
    ELSE IF v.t = "undefined" THEN Undefined
    ELSE Str(Chars(v))

\* JSON.stringify({ path })
RequestBody(path) == <<"{">> \o Quote(KeyChars("path")) \o <<":">> \o Quote(path) \o <<"}">>

(***************************************************************************)
(* base64                                                                  *)
(***************************************************************************)
B64Alphabet ==
    <<"A","B","C","D","E","F","G","H","I","J","K","L","M","N","O","P",
      "Q","R","S","T","U","V","W","X","Y","Z","a","b","c","d","e","f",
      "g","h","i","j","k","l","m","n","o","p","q","r","s","t","u","v",
      "w","x","y","z","0","1","2","3","4","5","6","7","8","9","+","/">>

B64Char(n) == B64Alphabet[n + 1]
IsB64Char(c) == \E i \in 1..Len(B64Alphabet) : B64Alphabet[i] = c
B64Value(c) == (CHOOSE i \in 1..Len(B64Alphabet) : B64Alphabet[i] = c) - 1

RECURSIVE btoa(_)
\* btoa on a binary string given as its sequence of char codes (0..255)
btoa(bytes) ==
    IF bytes = <<>> THEN <<>>
    ELSE IF Len(bytes) = 1
    THEN <<B64Char(bytes[1] \div 4), B64Char((bytes[1] % 4) * 16), "=", "=">>
    ELSE IF Len(bytes) = 2
    THEN <<B64Char(bytes[1] \div 4),
           B64Char((bytes[1] % 4) * 16 + bytes[2] \div 16),
           B64Char((bytes[2] % 16) * 4), "=">>
    ELSE <<B64Char(bytes[1] \div 4),
           B64Char((bytes[1] % 4) * 16 + bytes[2] \div 16),
           B64Char((bytes[2] % 16) * 4 + bytes[3] \div 64),
           B64Char(bytes[3] % 64)>> \o btoa(SubSeq(bytes, 4, Len(bytes)))

IsAsciiWhitespace(c) == c \in {" ", "\t", "\n", "\f", "\r"}

RECURSIVE StripWhitespace(_)
StripWhitespace(s) ==
    IF s = <<>> THEN <<>>
    ELSE IF IsAsciiWhitespace(Head(s)) THEN StripWhitespace(Tail(s))
    ELSE <<Head(s)>> \o StripWhitespace(Tail(s))

\* forgiving-base64: drop one or two trailing "=" when the length is a multiple of 4
StripPadding(s) ==
    IF Len(s) % 4 = 0 /\ Len(s) > 0 /\ s[Len(s)] = "="
    THEN IF s[Len(s) - 1] = "=" THEN SubSeq(s, 1, Len(s) - 2)
         ELSE SubSeq(s, 1, Len(s) - 1)
    ELSE s

B64Data(s) == StripPadding(StripWhitespace(s))

\* atob throws InvalidCharacterError exactly when this is false
AtobAccepts(s) ==
    /\ Len(B64Data(s)) % 4 # 1
    /\ \A i \in 1..Len(B64Data(s)) : IsB64Char(B64Data(s)[i])

RECURSIVE DecodeGroups(_)
\* the char codes of the decoded binary string; leftover bits are discarded
DecodeGroups(d) ==
    IF Len(d) < 2 THEN <<>>
    ELSE IF Len(d) = 2
    THEN <<B64Value(d[1]) * 4 + B64Value(d[2]) \div 16>>
    ELSE IF Len(d) = 3
    THEN <<B64Value(d[1]) * 4 + B64Value(d[2]) \div 16,
           (B64Value(d[2]) % 16) * 16 + B64Value(d[3]) \div 4>>
    ELSE <<B64Value(d[1]) * 4 + B64Value(d[2]) \div 16,
           (B64Value(d[2]) % 16) * 16 + B64Value(d[3]) \div 4,
           (B64Value(d[3]) % 4) * 64 + B64Value(d[4])>>
         \o DecodeGroups(SubSeq(d, 5, Len(d)))

\* atob(s), defined when AtobAccepts(s)
atob(s) == DecodeGroups(B64Data(s))

\* the loop of _base64ToBlob stopping one character early
Base64ToBlobShort(base64, contentType) ==
    LET byteCharacters == atob(base64)
        n == IF Len(byteCharacters) = 0 THEN 0 ELSE Len(byteCharacters) - 1
    IN [bytes |-> [i \in 1..n |-> byteCharacters[i] % 256],
        type |-> contentType]

\* _base64ToBlob: charCodeAt of every decoded character, packed into a
\* Uint8Array (values modulo 256) and wrapped in a Blob of contentType
Base64ToBlob(base64, contentType) ==
    LET byteCharacters == atob(base64)
        byteNumbers == [i \in 1..Len(byteCharacters) |-> byteCharacters[i]]
    IN [bytes |-> [i \in 1..Len(byteNumbers) |-> byteNumbers[i] % 256],
        type |-> contentType]

(***************************************************************************)
(* HTML escaping                                                           *)
(***************************************************************************)
\* the no-break space U+00A0, written as one character
NBSP == "U+00A0"

AsciiLower == <<"a","b","c","d","e","f","g","h","i","j","k","l","m",
                "n","o","p","q","r","s","t","u","v","w","x","y","z">>
AsciiUpper == <<"A","B","C","D","E","F","G","H","I","J","K","L","M",
                "N","O","P","Q","R","S","T","U","V","W","X","Y","Z">>

\* serialisation of a character that leaves ">" as it is
EscapeCharKeepsGt(c) ==
    CASE c = "&" -> <<"&","a","m","p",";">>
      [] c = "<" -> <<"&","l","t",";">>
      [] c = NBSP -> <<"&","n","b","s","p",";">>
      [] OTHER -> <<c>>

\* serialisation of one character of a text node
EscapeChar(c) ==
    CASE c = "&" -> <<"&","a","m","p",";">>
      [] c = "<" -> <<"&","l","t",";">>
      [] c = ">" -> <<"&","g","t",";">>
      [] c = NBSP -> <<"&","n","b","s","p",";">>
      [] OTHER -> <<c>>

RECURSIVE EscapeText(_)
\* every character of s serialised, in order (split in halves to keep the
\* evaluation shallow on long texts)
EscapeText(s) ==
    IF s = <<>> THEN <<>>
    ELSE IF Len(s) = 1 THEN EscapeChar(s[1])
    ELSE EscapeText(SubSeq(s, 1, Len(s) \div 2))
         \o EscapeText(SubSeq(s, Len(s) \div 2 + 1, Len(s)))

\* _escapeHtml(text): div.textContent = text; return div.innerHTML.
\* textContent converts its argument to a string (undefined and null give "")
EscapeHtml(v) ==
    IF IsObject(v)
    THEN EscapeText(<<"[","o","b","j","e","c","t"," ","O","b","j","e","c","t","]">>)
    ELSE IF v.t = "string" THEN EscapeText(v.s)
    ELSE IF v.t = "boolean" THEN EscapeText(Chars(v))
    ELSE <<>>

(***************************************************************************)
(* Sample strings                                                          *)
(***************************************************************************)
sNotesDocx == <<"n","o","t","e","s",".","d","o","c","x">>
sNotesPdf == <<"n","o","t","e","s",".","p","d","f">>
sMissingDocx == <<"m","i","s","s","i","n","g",".","d","o","c","x">>
sFullMissing == <<"/","r","/","m","i","s","s","i","n","g",".","d","o","c","x">>
sPathNotFound == <<"P","a","t","h","N","o","t","F","o","u","n","d">>
sUnsupportedFormat == <<"U","n","s","u","p","p","o","r","t","e","d","F","o","r","m","a","t">>
sConversionFailure == <<"<","C","o","n","v","e","r","s","i","o","n","F","a","i","l","u","r","e",">">>
sNotFound == <<"n","o","t"," ","f","o","u","n","d">>
sMarkupError == <<"<","b",">","x","&","y">>
sMarkupTrace == <<"T","<","1",">">>
sMarkupPath == <<"<","i",">",".","d","o","c">>
sMarkupFull == <<"/","r","/","<","i",">",".","d","o","c">>
sServerError == <<"<","h","1",">","5","0","0","<","/","h","1",">">>
sError == <<"E","r","r","o","r">>
\* the first bytes of a PDF file, "%PDF"
PdfBytes == <<37, 80, 68, 70>>
\* five base64 characters: a length atob rejects
sCorruptB64 == <<"J","V","B","E","R">>

(***************************************************************************)
(* What requestAPI('convert', ...) can deliver                             *)
(***************************************************************************)
RespOk == Obj("Object", [success |-> Bool(TRUE), pdf_data |-> Str(btoa(PdfBytes)),
                         filename |-> Str(sNotesPdf)])
RespOkEmpty == Obj("Object", [success |-> Bool(TRUE), pdf_data |-> Str(<<>>),
                              filename |-> Str(sNotesPdf)])
RespOkMissing == Obj("Object", [success |-> Bool(TRUE)])
RespOkCorrupt == Obj("Object", [success |-> Bool(TRUE), pdf_data |-> Str(sCorruptB64)])
RespPathNotFound == Obj("Object", [success |-> Bool(FALSE), error |-> Str(sNotFound),
                                   error_type |-> Str(sPathNotFound),
                                   file_path |-> Str(sMissingDocx),
                                   full_path |-> Str(sFullMissing)])
RespUnsupported == Obj("Object", [success |-> Bool(FALSE),
                                  error_type |-> Str(sUnsupportedFormat)])
RespMarkup == Obj("Object", [success |-> Bool(FALSE), error |-> Str(sMarkupError),
                             error_type |-> Str(sConversionFailure),
                             traceback |-> Str(sMarkupTrace),
                             file_path |-> Str(sMarkupPath),
                             full_path |-> Str(sMarkupFull)])
\* a body that is the JSON text null, and an empty body
RespNull == Null
RespEmptyBody == Str(<<>>)

Responses == {RespOk, RespOkEmpty, RespOkMissing, RespOkCorrupt, RespPathNotFound,
              RespUnsupported, RespMarkup, RespNull, RespEmptyBody}

\* the failure envelopes a server sends with a non-2xx status
Envelopes == {RespPathNotFound, RespUnsupported, RespMarkup}

\* a rejection: an Error whose message is text; a ResponseError has a traceback
ResponseError(message) == Obj("ResponseError", [message |-> Str(message),
                                                 traceback |-> Str(<<>>)])
ErrJson(e) == ResponseError(JSONStringify(e).s)
ErrText == ResponseError(sServerError)
ErrEmpty == ResponseError(<<>>)

ApiErrors == {ErrJson(RespMarkup), ErrText, ErrEmpty}

\* JSON.parse(text): the value, or a SyntaxError. The JSON texts among the
\* messages of the model are the serialised envelopes.
JSONParse(text) ==
    IF \E e \in Envelopes : JSONStringify(e) = Str(text)
    THEN [ok |-> TRUE, value |-> CHOOSE e \in Envelopes : JSONStringify(e) = Str(text)]
    ELSE [ok |-> FALSE, value |-> Obj("SyntaxError", [message |-> Str(text)])]

\* the context.path of the document each widget is opened on
Paths == <<sNotesDocx, sMissingDocx>>
ContextPath(w) == Paths[((w - 1) % Len(Paths)) + 1]

(***************************************************************************)
(* State                                                                   *)
(***************************************************************************)
VARIABLES
    pc,             \* per widget: "Idle" (not constructed), "Awaiting" (at the
                    \* await of requestAPI), "Done" (_loadDocument returned)
    requests,       \* per widget: the requests it has sent
    outcome,        \* per widget: what its request delivered
    iframeSrcdoc,   \* per widget: this._iframe.srcdoc
    iframeSrc,      \* per widget: this._iframe.src
    iframeDisplay,  \* per widget: this._iframe.style.display
    errorDisplay,   \* per widget: this._errorDiv.style.display
    errorInnerHTML, \* per widget: this._errorDiv.innerHTML
    nodeChildren,   \* per widget: the children of this.node
    embed,          \* per widget: the embed element created on success
    ready,          \* per widget: state of this._ready.promise
    unhandled,      \* per widget: rejections of its promises nobody handles
    disposed,       \* per widget: this.isDisposed
    disposeCalls,   \* per widget: number of dispose() calls made
    urlStore,       \* the browser's blob URL store, in creation order
    stage,          \* base64 round trip: "idle", "bytes", "encoded", "decoded"
    bytesIn,        \* base64 round trip: the bytes encoded
    typeIn,         \* base64 round trip: the content type asked for
    base64Text,     \* base64 round trip: the encoded text
    blobOut,        \* base64 round trip: the decoded Blob
    shownError,     \* per widget: the argument of its last _showError call
    settleCalls,    \* per widget: calls of this._ready.resolve and .reject
    escStage,       \* _escapeHtml on its own: "idle", "text", "escaped"
    textIn,         \* _escapeHtml on its own: the text passed
    htmlOut,        \* _escapeHtml on its own: the markup returned
    extStage,       \* extension detection: "idle", "path", "detected"
    pathIn,         \* extension detection: the path
    extOut,         \* extension detection: the value of `ext`
    activatePc,     \* activate(): "idle" (not called), "returned", "threw"
    fileTypes,      \* docRegistry: the file types added, in order
    widgetFactories,\* docRegistry: the widget factories added, in order
    attempted,      \* activate(): names passed to addFileType, in order
    warnings,       \* activate(): names console.warn reported
    showStage,      \* _showError on its own: "idle", "thrown", "shown"
    errorIn,        \* _showError on its own: the value thrown in _loadDocument
    errorArg,       \* _showError on its own: the argument of _showError
    viaRejection,   \* _showError on its own: whether requestAPI rejected
                    \* with errorIn (else it was thrown after the await)
    panelOut,       \* _showError on its own: the markup of the error panel
    modelCalls,     \* DocModel: the calls made on the model, in order
    contentChangedEmits, \* DocModel: emissions of contentChanged
    stateChangedEmits    \* DocModel: emissions of stateChanged

widgetVars == <<pc, requests, outcome, iframeSrcdoc, iframeSrc, iframeDisplay,
                errorDisplay, errorInnerHTML, nodeChildren, embed, ready,
                unhandled, disposed, disposeCalls, urlStore, shownError,
                settleCalls>>
base64Vars == <<stage, bytesIn, typeIn, base64Text, blobOut>>
escapeVars == <<escStage, textIn, htmlOut>>
extensionVars == <<extStage, pathIn, extOut>>
pluginVars == <<activatePc, fileTypes, widgetFactories, attempted,
                warnings>>
showErrorVars == <<showStage, errorIn, errorArg, viaRejection, panelOut>>
modelVars == <<modelCalls, contentChangedEmits, stateChangedEmits>>
vars == <<widgetVars, base64Vars, escapeVars, extensionVars, pluginVars,
          showErrorVars, modelVars>>
\* what each part of the model leaves alone
outsideWidget == <<base64Vars, escapeVars, extensionVars, pluginVars,
                    showErrorVars, modelVars>>
outsideBase64 == <<widgetVars, escapeVars, extensionVars, pluginVars,
                    showErrorVars, modelVars>>
outsideEscape == <<widgetVars, base64Vars, extensionVars, pluginVars,
                    showErrorVars, modelVars>>
outsideExtension == <<widgetVars, base64Vars, escapeVars, pluginVars,
                    showErrorVars, modelVars>>
outsidePlugin == <<widgetVars, base64Vars, escapeVars, extensionVars,
                    showErrorVars, modelVars>>
outsideShowError == <<widgetVars, base64Vars, escapeVars, extensionVars,
                      pluginVars, modelVars>>
outsideModel == <<widgetVars, base64Vars, escapeVars, extensionVars,
                  pluginVars, showErrorVars>>

LoadingPlaceholder == "Converting document..."
NoUrl == [scheme |-> "", id |-> 0]
BlobUrl(n) == [scheme |-> "blob", id |-> n]
\* url.startsWith('blob:')
StartsWithBlob(url) == url.scheme = "blob"
NoEmbed == [src |-> NoUrl, type |-> ""]
NoOutcome == [kind |-> "none", value |-> Undefined]
NoBlob == [bytes |-> <<>>, type |-> "none"]
EmptyPanel == [filled |-> FALSE]

\* createNewWidget passes DocumentWidget the content and the context and no
\* reveal promise, and nothing else reads widget.ready: the rejection handlers
\* attached to the ready promise
ReadyHandlers == {}

WidgetInit ==
    /\ pc = [w \in Widgets |-> "Idle"]
    /\ requests = [w \in Widgets |-> <<>>]
    /\ outcome = [w \in Widgets |-> NoOutcome]
    /\ iframeSrcdoc = [w \in Widgets |-> ""]
    /\ iframeSrc = [w \in Widgets |-> NoUrl]
    /\ iframeDisplay = [w \in Widgets |-> ""]
    /\ errorDisplay = [w \in Widgets |-> ""]
    /\ errorInnerHTML = [w \in Widgets |-> EmptyPanel]
    /\ nodeChildren = [w \in Widgets |-> <<>>]
    /\ embed = [w \in Widgets |-> NoEmbed]
    /\ ready = [w \in Widgets |-> "pending"]
    /\ unhandled = [w \in Widgets |-> 0]
    /\ disposed = [w \in Widgets |-> FALSE]
    /\ disposeCalls = [w \in Widgets |-> 0]
    /\ urlStore = <<>>
    /\ shownError = [w \in Widgets |-> Undefined]
    /\ settleCalls = [w \in Widgets |-> 0]

Base64Idle ==
    /\ stage = "idle"
    /\ bytesIn = <<>>
    /\ typeIn = "none"
    /\ base64Text = <<>>
    /\ blobOut = NoBlob

EscapeIdle ==
    /\ escStage = "idle"
    /\ textIn = <<>>
    /\ htmlOut = <<>>

ExtensionIdle ==
    /\ extStage = "idle"
    /\ pathIn = <<>>
    /\ extOut = Undefined

\* the plugin not activated, the registry holding no file type and no factory
PluginIdle ==
    /\ activatePc = "idle"
    /\ fileTypes = <<>>
    /\ widgetFactories = <<>>
    /\ attempted = <<>>
    /\ warnings = <<>>

ShowErrorIdle ==
    /\ showStage = "idle"
    /\ errorIn = Undefined
    /\ errorArg = Undefined
    /\ viaRejection = FALSE
    /\ panelOut = EmptyPanel

\* a DocModel just constructed: nothing called, nothing emitted
ModelIdle ==
    /\ modelCalls = <<>>
    /\ contentChangedEmits = 0
    /\ stateChangedEmits = 0

Init ==
    /\ WidgetInit /\ Base64Idle /\ EscapeIdle /\ ExtensionIdle /\ PluginIdle
    /\ ShowErrorIdle /\ ModelIdle

(***************************************************************************)
(* _showError                                                              *)
(***************************************************************************)
\* `${v}` : the characters a template literal inserts for v
TemplateText(v) ==
    IF IsObject(v) THEN <<"[","o","b","j","e","c","t"," ","O","b","j","e","c","t","]">>
    ELSE IF v.t = "string" THEN v.s
    ELSE IF v.t = "boolean" THEN Chars(v)
    ELSE IF v.t = "null" THEN <<"n","u","l","l">>
    ELSE <<"u","n","d","e","f","i","n","e","d">>

\* the selection testing the message before the error field
ErrorMessageOfMessageFirst(error) ==
    IF Truthy(Get(error, "message")) THEN Get(error, "message")
    ELSE IF Truthy(Get(error, "error")) THEN Get(error, "error")
    ELSE IF TypeOf(error) = "string" THEN error
    ELSE JSONStringify(error)

ErrorMessageOf(error) ==
    IF Truthy(Get(error, "error")) THEN Get(error, "error")
    ELSE IF Truthy(Get(error, "message")) THEN Get(error, "message")
    ELSE IF TypeOf(error) = "string" THEN error
    ELSE JSONStringify(error)

ErrorTypeOf(error) ==
    IF Truthy(Get(error, "error_type")) THEN Get(error, "error_type") ELSE Str(sError)

TracebackOf(error) ==
    IF Truthy(Get(error, "traceback")) THEN Get(error, "traceback") ELSE Str(<<>>)

Absent == [present |-> FALSE, text |-> <<>>]
Inserted(text) == [present |-> TRUE, text |-> text]

\* the markup _showError assigns to innerHTML, as the text put into each slot
\* of its template; a slot whose enclosing block is left out is Absent
ShowErrorPanel(error) ==
    [filled |-> TRUE,
     errorType |-> Inserted(EscapeHtml(ErrorTypeOf(error))),
     errorMessage |-> Inserted(EscapeHtml(ErrorMessageOf(error))),
     debugInfo |-> Truthy(Get(error, "file_path")) \/ Truthy(Get(error, "full_path")),
     requestedPath |-> IF Truthy(Get(error, "file_path"))
                       THEN Inserted(TemplateText(Get(error, "file_path"))) ELSE Absent,
     fullPath |-> IF Truthy(Get(error, "full_path"))
                  THEN Inserted(TemplateText(Get(error, "full_path"))) ELSE Absent,
     traceback |-> IF Truthy(TracebackOf(error))
                   THEN Inserted(EscapeHtml(TracebackOf(error))) ELSE Absent]

(***************************************************************************)
(* DocReaderWidget                                                         *)
(***************************************************************************)
sTypeError == <<"C","a","n","n","o","t"," ","r","e","a","d"," ","p","r","o","p","e","r","t","i","e","s">>
sInvalidCharacter == <<"I","n","v","a","l","i","d","C","h","a","r","a","c","t","e","r","E","r","r","o","r">>
\* reading a property of null or undefined
TypeErrorValue == Obj("TypeError", [message |-> Str(sTypeError)])
\* what atob throws on text that is not base64
InvalidCharacterError == Obj("DOMException", [message |-> Str(sInvalidCharacter)])

\* URL.revokeObjectURL(url)
Revoke(store, url) ==
    [i \in 1..Len(store) |->
        IF i = url.id THEN [store[i] EXCEPT !.revoked = @ + 1] ELSE store[i]]

\* the constructor with _loadDocument sending the request without setting
\* the placeholder
ConstructWithoutPlaceholder(w) ==
    /\ pc[w] = "Idle"
    /\ iframeSrc' = [iframeSrc EXCEPT ![w] = NoUrl]
    /\ iframeDisplay' = [iframeDisplay EXCEPT ![w] = ""]
    /\ errorDisplay' = [errorDisplay EXCEPT ![w] = "none"]
    /\ nodeChildren' = [nodeChildren EXCEPT ![w] = <<"errorDiv", "iframe">>]
    /\ iframeSrcdoc' = iframeSrcdoc
    /\ requests' = [requests EXCEPT ![w] =
                      Append(@, [endPoint |-> "convert", method |-> "POST",
                                 body |-> RequestBody(ContextPath(w))])]
    /\ pc' = [pc EXCEPT ![w] = "Awaiting"]
    /\ UNCHANGED <<outcome, errorInnerHTML, embed, ready, unhandled, disposed,
                   disposeCalls, urlStore, shownError, settleCalls>>
    /\ UNCHANGED outsideWidget

\* the constructor, and _loadDocument up to its await: the fields and the two
\* children are created, the placeholder is shown, the request is sent
Construct(w) ==
    /\ pc[w] = "Idle"
    /\ iframeSrc' = [iframeSrc EXCEPT ![w] = NoUrl]
    /\ iframeDisplay' = [iframeDisplay EXCEPT ![w] = ""]
    /\ errorDisplay' = [errorDisplay EXCEPT ![w] = "none"]
    /\ nodeChildren' = [nodeChildren EXCEPT ![w] = <<"errorDiv", "iframe">>]
    /\ iframeSrcdoc' = [iframeSrcdoc EXCEPT ![w] = LoadingPlaceholder]
    /\ requests' = [requests EXCEPT ![w] =
                      Append(@, [endPoint |-> "convert", method |-> "POST",
                                 body |-> RequestBody(ContextPath(w))])]
    /\ pc' = [pc EXCEPT ![w] = "Awaiting"]
    /\ UNCHANGED <<outcome, errorInnerHTML, embed, ready, unhandled, disposed,
                   disposeCalls, urlStore, shownError, settleCalls>>
    /\ UNCHANGED outsideWidget

\* every value the outer catch can receive
ErrorValues == Responses \cup ApiErrors \cup {TypeErrorValue, InvalidCharacterError}
\* _showError's markup for each of them, computed once
PanelOf == [error \in ErrorValues |-> ShowErrorPanel(error)]

\* the outer catch with _showError leaving the iframe displayed
FailKeepsIframe(w, error) ==
    /\ iframeDisplay' = iframeDisplay
    /\ errorDisplay' = [errorDisplay EXCEPT ![w] = "block"]
    /\ errorInnerHTML' = [errorInnerHTML EXCEPT ![w] = PanelOf[error]]
    /\ shownError' = [shownError EXCEPT ![w] = error]
    /\ ready' = [ready EXCEPT ![w] = IF @ = "pending" THEN "rejected" ELSE @]
    /\ settleCalls' = [settleCalls EXCEPT ![w] = @ + 1]
    /\ unhandled' = [unhandled EXCEPT ![w] =
                       IF ready[w] = "pending" /\ ReadyHandlers = {} THEN @ + 1 ELSE @]
    /\ pc' = [pc EXCEPT ![w] = "Done"]
    /\ UNCHANGED <<requests, iframeSrcdoc, iframeSrc, nodeChildren, embed, urlStore>>

\* the outer catch calling _loadDocument again after the first failure
FailRetries(w, error) ==
    /\ iframeDisplay' = [iframeDisplay EXCEPT ![w] = "none"]
    /\ errorDisplay' = [errorDisplay EXCEPT ![w] = "block"]
    /\ errorInnerHTML' = [errorInnerHTML EXCEPT ![w] = PanelOf[error]]
    /\ shownError' = [shownError EXCEPT ![w] = error]
    /\ ready' = [ready EXCEPT ![w] = IF @ = "pending" THEN "rejected" ELSE @]
    /\ settleCalls' = [settleCalls EXCEPT ![w] = @ + 1]
    /\ unhandled' = [unhandled EXCEPT ![w] =
                       IF ready[w] = "pending" /\ ReadyHandlers = {} THEN @ + 1 ELSE @]
    /\ IF Len(requests[w]) < 2
       THEN /\ requests' = [requests EXCEPT ![w] = Append(@, @[1])]
            /\ pc' = [pc EXCEPT ![w] = "Awaiting"]
       ELSE /\ requests' = requests
            /\ pc' = [pc EXCEPT ![w] = "Done"]
    /\ UNCHANGED <<iframeSrcdoc, iframeSrc, nodeChildren, embed, urlStore>>

\* the outer catch showing the error and leaving the ready promise pending
FailWithoutReject(w, error) ==
    /\ iframeDisplay' = [iframeDisplay EXCEPT ![w] = "none"]
    /\ errorDisplay' = [errorDisplay EXCEPT ![w] = "block"]
    /\ errorInnerHTML' = [errorInnerHTML EXCEPT ![w] = PanelOf[error]]
    /\ shownError' = [shownError EXCEPT ![w] = error]
    /\ pc' = [pc EXCEPT ![w] = "Done"]
    /\ UNCHANGED <<requests, iframeSrcdoc, iframeSrc, nodeChildren, embed, urlStore,
                   ready, unhandled, settleCalls>>

\* the outer catch: _showError(error), then this._ready.reject(error)
Fail(w, error) ==
    /\ iframeDisplay' = [iframeDisplay EXCEPT ![w] = "none"]
    /\ errorDisplay' = [errorDisplay EXCEPT ![w] = "block"]
    /\ errorInnerHTML' = [errorInnerHTML EXCEPT ![w] = PanelOf[error]]
    /\ shownError' = [shownError EXCEPT ![w] = error]
    /\ ready' = [ready EXCEPT ![w] = IF @ = "pending" THEN "rejected" ELSE @]
    /\ settleCalls' = [settleCalls EXCEPT ![w] = @ + 1]
    /\ unhandled' = [unhandled EXCEPT ![w] =
                       IF ready[w] = "pending" /\ ReadyHandlers = {} THEN @ + 1 ELSE @]
    /\ pc' = [pc EXCEPT ![w] = "Done"]
    /\ UNCHANGED <<requests, iframeSrcdoc, iframeSrc, nodeChildren, embed, urlStore>>

\* the success branch with the object URL kept in one place for all widgets
RenderSharesUrl(w, response) ==
    LET pdfBlob == Base64ToBlob(Get(response, "pdf_data").s, "application/pdf")
        pdfUrl == BlobUrl(1)
    IN /\ urlStore' = IF urlStore = <<>>
                      THEN <<[blob |-> pdfBlob, owner |-> w, revoked |-> 0]>>
                      ELSE urlStore
       /\ iframeSrcdoc' = [iframeSrcdoc EXCEPT ![w] = ""]
       /\ iframeDisplay' = [iframeDisplay EXCEPT ![w] = "none"]
       /\ embed' = [embed EXCEPT ![w] = [src |-> pdfUrl, type |-> "application/pdf"]]
       /\ nodeChildren' = [nodeChildren EXCEPT ![w] = <<"embed">>]
       /\ ready' = [ready EXCEPT ![w] = IF @ = "pending" THEN "resolved" ELSE @]
       /\ settleCalls' = [settleCalls EXCEPT ![w] = @ + 1]
       /\ pc' = [pc EXCEPT ![w] = "Done"]
       /\ UNCHANGED <<requests, iframeSrc, errorDisplay, errorInnerHTML, unhandled,
                      shownError>>

\* the success branch with the embed appended beside the old children
RenderKeepsChildren(w, response) ==
    LET pdfBlob == Base64ToBlob(Get(response, "pdf_data").s, "application/pdf")
        pdfUrl == BlobUrl(Len(urlStore) + 1)
    IN /\ urlStore' = Append(urlStore, [blob |-> pdfBlob, owner |-> w, revoked |-> 0])
       /\ iframeSrcdoc' = iframeSrcdoc
       /\ iframeDisplay' = iframeDisplay
       /\ embed' = [embed EXCEPT ![w] = [src |-> pdfUrl, type |-> "application/pdf"]]
       /\ nodeChildren' = [nodeChildren EXCEPT ![w] = Append(@, "embed")]
       /\ ready' = [ready EXCEPT ![w] = IF @ = "pending" THEN "resolved" ELSE @]
       /\ settleCalls' = [settleCalls EXCEPT ![w] = @ + 1]
       /\ pc' = [pc EXCEPT ![w] = "Done"]
       /\ UNCHANGED <<requests, iframeSrc, errorDisplay, errorInnerHTML, unhandled,
                      shownError>>

\* the success branch removing the iframe alone before the embed is appended
RenderBesideErrorDiv(w, response) ==
    LET pdfBlob == Base64ToBlob(Get(response, "pdf_data").s, "application/pdf")
        pdfUrl == BlobUrl(Len(urlStore) + 1)
    IN /\ urlStore' = Append(urlStore, [blob |-> pdfBlob, owner |-> w, revoked |-> 0])
       /\ iframeSrcdoc' = [iframeSrcdoc EXCEPT ![w] = ""]
       /\ iframeDisplay' = [iframeDisplay EXCEPT ![w] = "none"]
       /\ embed' = [embed EXCEPT ![w] = [src |-> pdfUrl, type |-> "application/pdf"]]
       /\ nodeChildren' = [nodeChildren EXCEPT ![w] =
                             Append(SelectSeq(@, LAMBDA c : c # "iframe"), "embed")]
       /\ ready' = [ready EXCEPT ![w] = IF @ = "pending" THEN "resolved" ELSE @]
       /\ settleCalls' = [settleCalls EXCEPT ![w] = @ + 1]
       /\ pc' = [pc EXCEPT ![w] = "Done"]
       /\ UNCHANGED <<requests, iframeSrc, errorDisplay, errorInnerHTML, unhandled,
                      shownError>>

\* the success branch without this._ready.resolve()
RenderWithoutResolve(w, response) ==
    LET pdfBlob == Base64ToBlob(Get(response, "pdf_data").s, "application/pdf")
        pdfUrl == BlobUrl(Len(urlStore) + 1)
    IN /\ urlStore' = Append(urlStore, [blob |-> pdfBlob, owner |-> w, revoked |-> 0])
       /\ iframeSrcdoc' = [iframeSrcdoc EXCEPT ![w] = ""]
       /\ iframeDisplay' = [iframeDisplay EXCEPT ![w] = "none"]
       /\ embed' = [embed EXCEPT ![w] = [src |-> pdfUrl, type |-> "application/pdf"]]
       /\ nodeChildren' = [nodeChildren EXCEPT ![w] = <<"embed">>]
       /\ pc' = [pc EXCEPT ![w] = "Done"]
       /\ UNCHANGED <<requests, iframeSrc, errorDisplay, errorInnerHTML, unhandled,
                      shownError, ready, settleCalls>>

\* the success branch: blob, object URL, embed in place of the children
Render(w, response) ==
    LET pdfBlob == Base64ToBlob(Get(response, "pdf_data").s, "application/pdf")
        pdfUrl == BlobUrl(Len(urlStore) + 1)
    IN /\ urlStore' = Append(urlStore, [blob |-> pdfBlob, owner |-> w, revoked |-> 0])
       /\ iframeSrcdoc' = [iframeSrcdoc EXCEPT ![w] = ""]
       /\ iframeDisplay' = [iframeDisplay EXCEPT ![w] = "none"]
       /\ embed' = [embed EXCEPT ![w] = [src |-> pdfUrl, type |-> "application/pdf"]]
       /\ nodeChildren' = [nodeChildren EXCEPT ![w] = <<"embed">>]
       /\ ready' = [ready EXCEPT ![w] = IF @ = "pending" THEN "resolved" ELSE @]
       /\ settleCalls' = [settleCalls EXCEPT ![w] = @ + 1]
       /\ pc' = [pc EXCEPT ![w] = "Done"]
       /\ UNCHANGED <<requests, iframeSrc, errorDisplay, errorInnerHTML, unhandled,
                      shownError>>

\* _loadDocument creating the object URL before the base64 text is decoded:
\* text atob rejects leaves a URL behind and ends in the outer catch
RequestResolvesUrlBeforeDecode(w, response) ==
    /\ pc[w] = "Awaiting"
    /\ outcome' = [outcome EXCEPT ![w] = [kind |-> "response", value |-> response]]
    /\ IF TypeOf(response) \in {"null", "undefined"}
       THEN Fail(w, TypeErrorValue)
       ELSE IF Truthy(Get(response, "success")) /\ Truthy(Get(response, "pdf_data"))
            THEN IF AtobAccepts(Get(response, "pdf_data").s)
                 THEN Render(w, response)
                 ELSE /\ urlStore' = Append(urlStore,
                                            [blob |-> NoBlob, owner |-> w, revoked |-> 0])
                      /\ iframeDisplay' = [iframeDisplay EXCEPT ![w] = "none"]
                      /\ errorDisplay' = [errorDisplay EXCEPT ![w] = "block"]
                      /\ errorInnerHTML' = [errorInnerHTML EXCEPT ![w] =
                                              PanelOf[InvalidCharacterError]]
                      /\ shownError' = [shownError EXCEPT ![w] = InvalidCharacterError]
                      /\ ready' = [ready EXCEPT ![w] = "rejected"]
                      /\ settleCalls' = [settleCalls EXCEPT ![w] = @ + 1]
                      /\ unhandled' = [unhandled EXCEPT ![w] = @ + 1]
                      /\ pc' = [pc EXCEPT ![w] = "Done"]
                      /\ UNCHANGED <<requests, iframeSrcdoc, iframeSrc, nodeChildren,
                                     embed>>
            ELSE Fail(w, response)
    /\ UNCHANGED <<disposed, disposeCalls>>
    /\ UNCHANGED outsideWidget

\* _loadDocument taking the success branch on response.success alone
RequestResolvesOnSuccessAlone(w, response) ==
    /\ pc[w] = "Awaiting"
    /\ outcome' = [outcome EXCEPT ![w] = [kind |-> "response", value |-> response]]
    /\ IF TypeOf(response) \in {"null", "undefined"}
       THEN Fail(w, TypeErrorValue)
       ELSE IF Truthy(Get(response, "success"))
            THEN IF /\ Get(response, "pdf_data").t = "string"
                    /\ AtobAccepts(Get(response, "pdf_data").s)
                 THEN Render(w, response)
                 ELSE Fail(w, InvalidCharacterError)
            ELSE Fail(w, response)
    /\ UNCHANGED <<disposed, disposeCalls>>
    /\ UNCHANGED outsideWidget

\* _loadDocument resumed with the response of requestAPI
RequestResolves(w, response) ==
    /\ pc[w] = "Awaiting"
    /\ outcome' = [outcome EXCEPT ![w] = [kind |-> "response", value |-> response]]
    /\ IF TypeOf(response) \in {"null", "undefined"}
       THEN Fail(w, TypeErrorValue)
       ELSE IF Truthy(Get(response, "success")) /\ Truthy(Get(response, "pdf_data"))
            THEN IF AtobAccepts(Get(response, "pdf_data").s)
                 THEN Render(w, response)
                 ELSE Fail(w, InvalidCharacterError)
            ELSE Fail(w, response)
    /\ UNCHANGED <<disposed, disposeCalls>>
    /\ UNCHANGED outsideWidget

\* the catch of the inner try: whatever the try threw (the parsed errorData
\* or the SyntaxError of JSON.parse), the original error is thrown
CatchRethrow(thrownInTry, apiError) == apiError

\* the inner catch (apiError): what it throws to the outer catch
InnerCatch(apiError) ==
    IF Truthy(Get(apiError, "message"))
    THEN CatchRethrow(JSONParse(Get(apiError, "message").s).value, apiError)
    ELSE apiError

\* _loadDocument resumed with a rejection of requestAPI
RequestRejects(w, apiError) ==
    /\ pc[w] = "Awaiting"
    /\ outcome' = [outcome EXCEPT ![w] = [kind |-> "rejection", value |-> apiError]]
    /\ Fail(w, InnerCatch(apiError))
    /\ UNCHANGED <<disposed, disposeCalls>>
    /\ UNCHANGED outsideWidget

\* dispose() without the isDisposed guard, revoking the embed's URL
DisposeEveryCall(w) ==
    /\ pc[w] # "Idle"
    /\ disposeCalls[w] < MaxDisposeCalls
    /\ disposeCalls' = [disposeCalls EXCEPT ![w] = @ + 1]
    /\ urlStore' = IF StartsWithBlob(embed[w].src)
                   THEN Revoke(urlStore, embed[w].src) ELSE urlStore
    /\ disposed' = [disposed EXCEPT ![w] = TRUE]
    /\ UNCHANGED <<pc, requests, outcome, iframeSrcdoc, iframeSrc, iframeDisplay,
                   errorDisplay, errorInnerHTML, nodeChildren, embed, ready, unhandled,
                   shownError, settleCalls>>
    /\ UNCHANGED outsideWidget

\* dispose()
Dispose(w) ==
    /\ pc[w] # "Idle"
    /\ disposeCalls[w] < MaxDisposeCalls
    /\ disposeCalls' = [disposeCalls EXCEPT ![w] = @ + 1]
    /\ IF disposed[w]
       THEN UNCHANGED <<disposed, urlStore>>
       ELSE /\ urlStore' = IF StartsWithBlob(iframeSrc[w])
                           THEN Revoke(urlStore, iframeSrc[w]) ELSE urlStore
            /\ disposed' = [disposed EXCEPT ![w] = TRUE]
    /\ UNCHANGED <<pc, requests, outcome, iframeSrcdoc, iframeSrc, iframeDisplay,
                   errorDisplay, errorInnerHTML, nodeChildren, embed, ready, unhandled,
                   shownError, settleCalls>>
    /\ UNCHANGED outsideWidget

Next ==
    \E w \in Widgets :
        \/ Construct(w)
        \/ \E response \in Responses : RequestResolves(w, response)
        \/ \E apiError \in ApiErrors : RequestRejects(w, apiError)
        \/ Dispose(w)

Spec == Init /\ [][Next]_vars

(***************************************************************************)
(* The request and the continuation of its await as separate steps        *)
(***************************************************************************)
\* the promise of requestAPI settles: the server's answer or a failure has
\* arrived, and _loadDocument has not resumed yet
RequestSettles(w) ==
    /\ pc[w] = "Awaiting"
    /\ outcome[w] = NoOutcome
    /\ \E o \in {[kind |-> "response", value |-> r] : r \in Responses}
                 \cup {[kind |-> "rejection", value |-> e] : e \in ApiErrors} :
          outcome' = [outcome EXCEPT ![w] = o]
    /\ UNCHANGED <<pc, requests, iframeSrcdoc, iframeSrc, iframeDisplay, errorDisplay,
                   errorInnerHTML, nodeChildren, embed, ready, unhandled, disposed,
                   disposeCalls, urlStore, shownError, settleCalls>>
    /\ UNCHANGED outsideWidget

\* _loadDocument resumes after its await with what the promise settled to
Resume(w) ==
    /\ outcome[w] # NoOutcome
    /\ IF outcome[w].kind = "response"
       THEN RequestResolves(w, outcome[w].value)
       ELSE RequestRejects(w, outcome[w].value)

\* the widgets the user closes at some moment of the run; closing changes
\* isDisposed alone, the same way for every widget, so that one widget closed
\* among others left open shows what disposal does to the load
Closed == {1}

LiveNext ==
    \/ \E w \in Widgets :
          \/ Construct(w)
          \/ RequestSettles(w)
          \/ Resume(w)
    \/ \E w \in Closed : Dispose(w)

\* Resume(w) as the program counter shows it: enabled exactly when Resume(w)
\* is, and the only step of LiveNext that moves pc[w] to "Done"
Resumed(w) ==
    /\ pc[w] = "Awaiting"
    /\ outcome[w] # NoOutcome
    /\ pc' = [pc EXCEPT ![w] = "Done"]

\* Nothing makes the server answer, and the code sets no timeout: the
\* settling of the request has no fairness.  The continuation of an await is
\* a job the event loop runs once the promise has settled, and no handler of
\* the widget blocks the loop: the resumption is weakly fair.
LiveSpec == Init /\ [][LiveNext]_vars /\ \A w \in Widgets : WF_pc(Resumed(w))

(***************************************************************************)
(* The outer catch and _showError on their own                             *)
(***************************************************************************)
sOops == <<"o","o","p","s","<">>
sDetail == <<"e","<","1",">">>
sReason == <<"m","&","m">>
sKind == <<"K","i","n","d">>

\* a field left out, set to the empty string, or set to a text
Optional(text) == {Undefined, Str(<<>>), Str(text)}

\* what the code after the await can throw into the outer catch: the
\* response (an object or a string) or an Error
ThrownValues ==
    {Obj(cls, [error |-> e, message |-> m, error_type |-> t]) :
        cls \in {"Object", "TypeError"}, e \in Optional(sDetail),
        m \in Optional(sReason), t \in Optional(sKind)}
    \cup {Str(<<>>), Str(sOops), RespOkEmpty, RespPathNotFound}

\* what requestAPI can reject with
RejectionValues == ApiErrors \cup {ResponseError(sOops)}

ShowErrorInit ==
    /\ WidgetInit /\ Base64Idle /\ EscapeIdle /\ ExtensionIdle /\ PluginIdle
    /\ ModelIdle
    /\ showStage = "thrown"
    /\ \/ viaRejection = FALSE /\ errorIn \in ThrownValues
       \/ viaRejection = TRUE /\ errorIn \in RejectionValues
    /\ errorArg = Undefined
    /\ panelOut = EmptyPanel

\* the outer catch receiving a value thrown after the await
ShowThrown ==
    /\ showStage = "thrown"
    /\ ~viaRejection
    /\ errorArg' = errorIn
    /\ panelOut' = ShowErrorPanel(errorIn)
    /\ showStage' = "shown"
    /\ UNCHANGED <<errorIn, viaRejection>>
    /\ UNCHANGED outsideShowError

\* the inner catch receiving the rejection of requestAPI, and the outer catch
\* receiving what the inner catch throws
ShowRejected ==
    /\ showStage = "thrown"
    /\ viaRejection
    /\ errorArg' = InnerCatch(errorIn)
    /\ panelOut' = ShowErrorPanel(InnerCatch(errorIn))
    /\ showStage' = "shown"
    /\ UNCHANGED <<errorIn, viaRejection>>
    /\ UNCHANGED outsideShowError

ShowErrorNext == ShowThrown \/ ShowRejected

ShowErrorSpec == ShowErrorInit /\ [][ShowErrorNext]_vars

(***************************************************************************)
(* DocModel                                                                *)
(***************************************************************************)
\* the object literal {}
EmptyObject == Obj("Object", <<>>)

\* the getters and the serialisers: each returns a literal
DocModel_dirty == FALSE
DocModel_readOnly == TRUE
DocModel_toString == <<>>
DocModel_toJSON == EmptyObject
DocModel_isDisposed == FALSE

\* the arguments the host and other callers pass
StringArguments == {<<>>, sOops}
JSONArguments == {EmptyObject, RespOk}

Called(method, argument) == [method |-> method, argument |-> argument]

DocModelInit ==
    /\ WidgetInit /\ Base64Idle /\ EscapeIdle /\ ExtensionIdle /\ PluginIdle
    /\ ShowErrorIdle
    /\ ModelIdle

\* fromString with contentChanged emitted for the new content
DocModel_fromStringEmits(value) ==
    /\ Len(modelCalls) < MaxModelCalls
    /\ modelCalls' = Append(modelCalls, Called("fromString", Str(value)))
    /\ contentChangedEmits' = contentChangedEmits + 1
    /\ UNCHANGED stateChangedEmits
    /\ UNCHANGED outsideModel

\* the body of each of the four methods is empty
DocModel_fromString(value) ==
    /\ Len(modelCalls) < MaxModelCalls
    /\ modelCalls' = Append(modelCalls, Called("fromString", Str(value)))
    /\ UNCHANGED <<contentChangedEmits, stateChangedEmits>>
    /\ UNCHANGED outsideModel

DocModel_fromJSON(value) ==
    /\ Len(modelCalls) < MaxModelCalls
    /\ modelCalls' = Append(modelCalls, Called("fromJSON", value))
    /\ UNCHANGED <<contentChangedEmits, stateChangedEmits>>
    /\ UNCHANGED outsideModel

DocModel_initialize ==
    /\ Len(modelCalls) < MaxModelCalls
    /\ modelCalls' = Append(modelCalls, Called("initialize", Undefined))
    /\ UNCHANGED <<contentChangedEmits, stateChangedEmits>>
    /\ UNCHANGED outsideModel

DocModel_dispose ==
    /\ Len(modelCalls) < MaxModelCalls
    /\ modelCalls' = Append(modelCalls, Called("dispose", Undefined))
    /\ UNCHANGED <<contentChangedEmits, stateChangedEmits>>
    /\ UNCHANGED outsideModel

DocModelNext ==
    \/ \E value \in StringArguments : DocModel_fromString(value)
    \/ \E value \in JSONArguments : DocModel_fromJSON(value)
    \/ DocModel_initialize
    \/ DocModel_dispose

DocModelSpec == DocModelInit /\ [][DocModelNext]_vars

(***************************************************************************)
(* The base64 round trip on its own                                        *)
(***************************************************************************)
ByteSamples == {0, 1, 37, 63, 64, 128, 254, 255}
ContentTypes == {"application/pdf", "text/plain"}

RECURSIVE SeqsUpTo(_, _)
SeqsUpTo(S, n) ==
    IF n = 0 THEN {<<>>}
    ELSE SeqsUpTo(S, n - 1) \cup {Append(q, x) : q \in {r \in SeqsUpTo(S, n - 1) : Len(r) = n - 1}, x \in S}

Base64Init ==
    /\ WidgetInit /\ EscapeIdle /\ ExtensionIdle /\ PluginIdle
    /\ ShowErrorIdle /\ ModelIdle
    /\ stage = "bytes"
    /\ bytesIn \in SeqsUpTo(ByteSamples, MaxBytes)
    /\ typeIn \in ContentTypes
    /\ base64Text = <<>>
    /\ blobOut = NoBlob

\* the server's encoder: the PDF bytes as base64 text
Encode ==
    /\ stage = "bytes"
    /\ base64Text' = btoa(bytesIn)
    /\ stage' = "encoded"
    /\ UNCHANGED <<bytesIn, typeIn, blobOut>>
    /\ UNCHANGED outsideBase64

\* _base64ToBlob on the text; atob throws on text that is not base64
Decode ==
    /\ stage = "encoded"
    /\ IF AtobAccepts(base64Text)
       THEN /\ blobOut' = Base64ToBlob(base64Text, typeIn)
            /\ stage' = "decoded"
       ELSE /\ blobOut' = blobOut
            /\ stage' = "threw"
    /\ UNCHANGED <<bytesIn, typeIn, base64Text>>
    /\ UNCHANGED outsideBase64

Base64Next == Encode \/ Decode

Base64Spec == Base64Init /\ [][Base64Next]_vars

(***************************************************************************)
(* _escapeHtml on its own                                                  *)
(***************************************************************************)
\* the three characters of markup, the double quote of the unit test, a
\* letter, and the no-break space
TextChars == {"a", "&", "<", ">", "\"", NBSP}

EscapeInit ==
    /\ WidgetInit /\ Base64Idle /\ ExtensionIdle /\ PluginIdle
    /\ ShowErrorIdle /\ ModelIdle
    /\ escStage = "text"
    /\ textIn \in SeqsUpTo(TextChars, MaxText)
    /\ htmlOut = <<>>

\* this._escapeHtml(text) for a string
Escape ==
    /\ escStage = "text"
    /\ htmlOut' = EscapeHtml(Str(textIn))
    /\ escStage' = "escaped"
    /\ UNCHANGED textIn
    /\ UNCHANGED outsideEscape

EscapeNext == Escape

EscapeSpec == EscapeInit /\ [][EscapeNext]_vars

(***************************************************************************)
(* File extension detection (the unit tests' path.split('.').pop())        *)
(***************************************************************************)
RECURSIVE Split(_, _)
\* s.split(separator) for a one-character separator: the segments between
\* the separators, in order; a string without separator is its one segment
Split(s, separator) ==
    IF \A i \in 1..Len(s) : s[i] # separator THEN <<s>>
    ELSE LET first == CHOOSE i \in 1..Len(s) :
                          /\ s[i] = separator
                          /\ \A j \in 1..(i - 1) : s[j] # separator
         IN <<SubSeq(s, 1, first - 1)>> \o Split(SubSeq(s, first + 1, Len(s)), separator)

\* array.pop(): the last element, undefined for an empty array
Pop(array) == IF array = <<>> THEN Undefined ELSE Str(array[Len(array)])

\* c.toLowerCase() for one character
LowerChar(c) ==
    IF \E i \in 1..Len(AsciiUpper) : AsciiUpper[i] = c
    THEN AsciiLower[CHOOSE i \in 1..Len(AsciiUpper) : AsciiUpper[i] = c]
    ELSE c
\* v?.toLowerCase()
ToLowerCase(v) ==
    IF v.t = "string" THEN Str([i \in 1..Len(v.s) |-> LowerChar(v.s[i])]) ELSE Undefined

\* the detection taking the first segment after a "." instead of the last
ExtensionOfSecondSegment(path) ==
    LET segments == Split(path, ".")
    IN ToLowerCase(Str(segments[IF Len(segments) > 1 THEN 2 ELSE 1]))

\* path.split('.').pop()?.toLowerCase()
ExtensionOf(path) == ToLowerCase(Pop(Split(path, ".")))

\* the paths of the unit tests and of the claim
TestPaths ==
    { <<"/","p","a","t","h","/","t","o","/","p","r","e","s","e","n","t","a","t","i","o","n",".","p","p","t","x">>,
      <<"/","p","a","t","h","/","t","o","/","d","o","c","u","m","e","n","t",".","d","o","c","x">>,
      <<"/","p","a","t","h","/","t","o","/","d","o","c","u","m","e","n","t",".","r","t","f">>,
      <<"/","p","a","t","h","/","t","o","/","P","R","E","S","E","N","T","A","T","I","O","N",".","P","P","T","X">>,
      <<"d","o","c","u","m","e","n","t",".","d","o","c","x">>,
      <<"D","O","C","U","M","E","N","T",".","D","O","C","X">>,
      <<"/","a","r","c","h","i","v","e",".","v","1","/","n","o","t","e","s",".","R","t","f">> }
PathChars == {"d", "D", "x", "X", ".", "/"}

ExtensionInit ==
    /\ WidgetInit /\ Base64Idle /\ EscapeIdle /\ PluginIdle
    /\ ShowErrorIdle /\ ModelIdle
    /\ extStage = "path"
    /\ pathIn \in SeqsUpTo(PathChars, MaxPath) \cup TestPaths
    /\ extOut = Undefined

\* const ext = path.split('.').pop()?.toLowerCase()
Detect ==
    /\ extStage = "path"
    /\ extOut' = ExtensionOf(pathIn)
    /\ extStage' = "detected"
    /\ UNCHANGED pathIn
    /\ UNCHANGED outsideExtension

ExtensionNext == Detect

ExtensionSpec == ExtensionInit /\ [][ExtensionNext]_vars

(***************************************************************************)
(* Plugin activation (src/src/index.ts)                                    *)
(***************************************************************************)
FILE_TYPES ==
    << [name |-> "docx", displayName |-> "Word Document (DOCX)",
        extensions |-> <<".docx">>,
        mimeTypes |-> <<"application/vnd.openxmlformats-officedocument.wordprocessingml.document">>,
        contentType |-> "file", fileFormat |-> "base64"],
       [name |-> "doc", displayName |-> "Word Document (DOC)",
        extensions |-> <<".doc">>,
        mimeTypes |-> <<"application/msword">>,
        contentType |-> "file", fileFormat |-> "base64"],
       [name |-> "rtf", displayName |-> "Rich Text Format",
        extensions |-> <<".rtf">>,
        mimeTypes |-> <<"application/rtf", "text/rtf">>,
        contentType |-> "file", fileFormat |-> "base64"] >>

\* FILE_TYPES.map(ft => ft.name)
FileTypeNames == [i \in 1..Len(FILE_TYPES) |-> FILE_TYPES[i].name]

\* the object activate passes to docRegistry.addFileType
AddFileTypeArgument(fileType) ==
    [name |-> fileType.name, displayName |-> fileType.displayName,
     extensions |-> fileType.extensions, mimeTypes |-> fileType.mimeTypes]

\* the factory created without readOnly and as the default of docx only
FactoryForDocxOnly ==
    [name |-> "Document Reader", modelName |-> "base64",
     fileTypes |-> FileTypeNames, defaultFor |-> <<"docx">>, readOnly |-> FALSE]

\* new DocReaderFactory({...})
NewDocReaderFactory ==
    [name |-> "Document Reader", modelName |-> "base64",
     fileTypes |-> FileTypeNames, defaultFor |-> FileTypeNames, readOnly |-> TRUE]

\* file types other plugins may have added before this one is activated
OtherPlugin == "another plugin"
HostFileTypeNames == {"markdown", "pdf", "docx", "doc", "rtf"}
HostFileType(n) == [name |-> n, displayName |-> OtherPlugin,
                    extensions |-> <<>>, mimeTypes |-> <<>>]
HostOrder == <<"markdown", "pdf", "docx", "doc", "rtf">>
Registered(registry) == {registry[i].name : i \in 1..Len(registry)}

PluginInit ==
    /\ WidgetInit /\ Base64Idle /\ EscapeIdle /\ ExtensionIdle
    /\ ShowErrorIdle /\ ModelIdle
    /\ activatePc = "idle"
    /\ \E present \in SUBSET HostFileTypeNames :
          fileTypes = [i \in 1..Cardinality(present) |->
                          HostFileType(SelectSeq(HostOrder, LAMBDA n : n \in present)[i])]
    /\ widgetFactories = <<>>
    /\ attempted = <<>>
    /\ warnings = <<>>

\* activate(app) without the try/catch around addFileType: the first throw
\* leaves activate
ActivateWithoutCatch(throwing) ==
    /\ activatePc = "idle"
    /\ throwing \subseteq Registered(fileTypes)
    /\ LET firstThrow == IF \E i \in 1..Len(FILE_TYPES) : FILE_TYPES[i].name \in throwing
                         THEN CHOOSE i \in 1..Len(FILE_TYPES) :
                                  /\ FILE_TYPES[i].name \in throwing
                                  /\ \A j \in 1..(i - 1) : FILE_TYPES[j].name \notin throwing
                         ELSE Len(FILE_TYPES) + 1
       IN /\ attempted' = SubSeq(FileTypeNames, 1,
                                  IF firstThrow > Len(FILE_TYPES) THEN Len(FILE_TYPES)
                                  ELSE firstThrow)
          /\ fileTypes' = fileTypes \o
                 [i \in 1..(firstThrow - 1) |-> AddFileTypeArgument(FILE_TYPES[i])]
          /\ warnings' = <<>>
          /\ IF firstThrow > Len(FILE_TYPES)
             THEN /\ widgetFactories' = Append(widgetFactories, NewDocReaderFactory)
                  /\ activatePc' = "returned"
             ELSE /\ widgetFactories' = widgetFactories
                  /\ activatePc' = "threw"
    /\ UNCHANGED outsidePlugin

\* activate(app): addFileType is called for each element of FILE_TYPES and
\* throws for those in `throwing`, which the registry holds already; each
\* throw is caught and reported; then the factory is created and added
Activate(throwing) ==
    /\ activatePc = "idle"
    /\ throwing \subseteq Registered(fileTypes)
    /\ attempted' = FileTypeNames
    /\ fileTypes' = fileTypes \o
           SelectSeq([i \in 1..Len(FILE_TYPES) |-> AddFileTypeArgument(FILE_TYPES[i])],
                     LAMBDA ft : ft.name \notin throwing)
    /\ warnings' = SelectSeq(FileTypeNames, LAMBDA n : n \in throwing)
    /\ widgetFactories' = Append(widgetFactories, NewDocReaderFactory)
    /\ activatePc' = "returned"
    /\ UNCHANGED outsidePlugin

PluginNext == \E throwing \in SUBSET {"docx", "doc", "rtf"} : Activate(throwing)

PluginSpec == PluginInit /\ [][PluginNext]_vars

(***************************************************************************)
(* What a widget displays                                                  *)
(***************************************************************************)
IsChild(w, element) == \E i \in 1..Len(nodeChildren[w]) : nodeChildren[w][i] = element

ShowsPlaceholder(w) ==
    /\ IsChild(w, "iframe")
    /\ iframeDisplay[w] # "none"
    /\ iframeSrcdoc[w] = LoadingPlaceholder
ShowsViewer(w) == IsChild(w, "embed") /\ StartsWithBlob(embed[w].src)
ShowsError(w) == IsChild(w, "errorDiv") /\ errorDisplay[w] = "block"

ViewerState(w) ==
    IF pc[w] = "Idle" THEN "Idle"
    ELSE IF ShowsViewer(w) THEN "Rendered"
    ELSE IF ShowsError(w) THEN "Failed"
    ELSE IF ShowsPlaceholder(w) THEN "Loading"
    ELSE "Blank"

Display(w) == <<iframeSrcdoc[w], iframeDisplay[w], errorDisplay[w],
                errorInnerHTML[w], nodeChildren[w], embed[w]>>

\* the object URLs widget w created, as indices of the URL store
UrlsOf(w) == {i \in 1..Len(urlStore) : urlStore[i].owner = w}

IsAsciiAlpha(c) == \E i \in 1..Len(AsciiLower) : c \in {AsciiLower[i], AsciiUpper[i]}

\* the character references the markup of the panel can hold
NamedEntities ==
    << [name |-> <<"&","a","m","p",";">>, char |-> "&"],
       [name |-> <<"&","l","t",";">>, char |-> "<"],
       [name |-> <<"&","g","t",";">>, char |-> ">"],
       [name |-> <<"&","n","b","s","p",";">>, char |-> NBSP] >>
StartsWith(m, prefix) ==
    Len(m) >= Len(prefix) /\ SubSeq(m, 1, Len(prefix)) = prefix

RECURSIVE DisplayedText(_)
\* the text a reader sees for markup assigned to innerHTML: a "<" followed
\* by a letter, "/", "!" or "?" opens a tag, which is not text, up to the
\* next ">"; a character reference shows its character
DisplayedText(m) ==
    IF m = <<>> THEN <<>>
    ELSE IF m[1] = "<" /\ Len(m) > 1
            /\ (IsAsciiAlpha(m[2]) \/ m[2] \in {"/", "!", "?"})
    THEN LET closes == {i \in 1..Len(m) : m[i] = ">"}
         IN IF closes = {} THEN <<>>
            ELSE LET close == CHOOSE i \in closes : \A j \in closes : i <= j
                 IN DisplayedText(SubSeq(m, close + 1, Len(m)))
    ELSE IF \E k \in 1..Len(NamedEntities) : StartsWith(m, NamedEntities[k].name)
    THEN LET k == CHOOSE k \in 1..Len(NamedEntities) :
                      StartsWith(m, NamedEntities[k].name)
         IN <<NamedEntities[k].char>>
            \o DisplayedText(SubSeq(m, Len(NamedEntities[k].name) + 1, Len(m)))
    ELSE \* the run of characters up to the next "<" or "&" is text as it is
         LET marks == {i \in 2..Len(m) : m[i] \in {"<", "&"}}
             stop == IF marks = {} THEN Len(m) + 1
                     ELSE CHOOSE i \in marks : \A j \in marks : i <= j
         IN SubSeq(m, 1, stop - 1) \o DisplayedText(SubSeq(m, stop, Len(m)))

GotResponse(w) == outcome[w].kind = "response"
GotRejection(w) == outcome[w].kind = "rejection"
SuccessFlag(w) == Get(outcome[w].value, "success")
PdfData(w) == Get(outcome[w].value, "pdf_data")

(***************************************************************************)
(* Claims                                                                  *)
(***************************************************************************)

\* C1: when dispose() is called on a widget that is Rendered, the object URL
\* it created is released exactly once, so that none of its URLs stays
\* unreleased after disposal.
C1_ReleasedOnDispose ==
    [][\A w \in Widgets :
        (ViewerState(w) = "Rendered" /\ ~disposed[w] /\ disposed'[w])
            => \A i \in UrlsOf(w) : urlStore'[i].revoked = 1]_vars

\* C2: a response or failure that arrives after dispose() was called during
\* Loading is discarded: no object URL is created, what the widget displays
\* does not change and no error is raised.
C2_LateResponseDiscarded ==
    [][\A w \in Widgets :
        (disposed[w] /\ pc[w] = "Awaiting" /\ pc'[w] = "Done")
            => /\ urlStore' = urlStore
               /\ Display(w)' = Display(w)
               /\ unhandled'[w] = unhandled[w]]_vars

\* C3: once a widget shows the PDF viewer or the error panel, no later step
\* puts it back in Loading: the placeholder is not shown again and no request
\* is in flight again.
C3_NoReturnToLoading ==
    [][\A w \in Widgets :
        (ShowsViewer(w) \/ ShowsError(w))
            => /\ ~ShowsPlaceholder(w)'
               /\ pc'[w] = "Done"]_vars

\* C3 witness: a widget that Rendered and one that Failed, both with later
\* dispose calls made on them.
C3_Witness ==
    \E w, v \in Widgets :
        /\ ViewerState(w) = "Rendered" /\ disposeCalls[w] >= 1
        /\ ViewerState(v) = "Failed" /\ disposeCalls[v] >= 2

\* C4: a constructed widget has sent exactly one request, a POST to
\* 'convert' whose body is the JSON text {"path":"<context.path>"}, whatever
\* its request has delivered since; an unconstructed one has sent none.
C4_ExactlyOneRequest ==
    \A w \in Widgets :
        /\ pc[w] = "Idle" => requests[w] = <<>>
        /\ pc[w] # "Idle" =>
              requests[w] = <<[endPoint |-> "convert", method |-> "POST",
                               body |-> <<"{", "\"", "p", "a", "t", "h", "\"", ":", "\"">>
                                        \o ContextPath(w) \o <<"\"", "}">>]>>

\* C4 witness: one widget whose request was rejected and one whose response
\* said success:false, both finished.
C4_Witness ==
    \E w, v \in Widgets :
        /\ pc[w] = "Done" /\ GotRejection(w)
        /\ pc[v] = "Done" /\ GotResponse(v) /\ SuccessFlag(v) = Bool(FALSE)

\* C5 as claimed: every response with success:true leaves the widget Rendered.
C5_EverySuccessRenders ==
    \A w \in Widgets :
        (GotResponse(w) /\ SuccessFlag(w) = Bool(TRUE)) => ViewerState(w) = "Rendered"

\* C5 amended: a response with success:true and a non-empty pdf_data that is
\* valid base64 leaves the widget Rendered: the only child is an embed of type
\* application/pdf bound to an object URL this widget created for a blob of
\* the decoded bytes, and the placeholder is gone.
C5_ValidSuccessRenders ==
    \A w \in Widgets :
        (/\ GotResponse(w)
         /\ SuccessFlag(w) = Bool(TRUE)
         /\ Truthy(PdfData(w))
         /\ AtobAccepts(PdfData(w).s))
            => /\ ViewerState(w) = "Rendered"
               /\ nodeChildren[w] = <<"embed">>
               /\ ~ShowsPlaceholder(w)
               /\ iframeSrcdoc[w] = ""
               /\ embed[w].type = "application/pdf"
               /\ UrlsOf(w) = {embed[w].src.id}
               /\ urlStore[embed[w].src.id].blob.type = "application/pdf"
               /\ StripPadding(btoa(urlStore[embed[w].src.id].blob.bytes)) = B64Data(PdfData(w).s)

\* C5 witness: the success response of scenario A has been rendered.
C5_Witness ==
    \E w \in Widgets :
        /\ outcome[w] = [kind |-> "response", value |-> RespOk]
        /\ ViewerState(w) = "Rendered"
        /\ urlStore[embed[w].src.id].blob.bytes = PdfBytes

\* a widget whose request ended on one of the failure paths
OnFailurePath(w) ==
    \/ GotRejection(w)
    \/ GotResponse(w) /\ SuccessFlag(w) = Bool(FALSE)

\* C6: every failure path (success:false, a rejection with a JSON message,
\* with a non-JSON message, with no message) ends with the error panel shown,
\* the placeholder hidden, and no exception or unhandled promise rejection.
C6_FailureWithoutUncaughtError ==
    \A w \in Widgets :
        OnFailurePath(w) => /\ ShowsError(w)
                            /\ ~ShowsPlaceholder(w)
                            /\ unhandled[w] = 0

\* C7: when the request rejects with an error whose message is the JSON text
\* of a failure envelope, the error panel displays that envelope's fields
\* (error, error_type, traceback, file_path, full_path).
C7_EnvelopeFieldsDisplayed ==
    \A w \in Widgets : \A e \in Envelopes :
        outcome[w] = [kind |-> "rejection", value |-> ErrJson(e)]
            => errorInnerHTML[w] = ShowErrorPanel(e)

NoRawMarkup(slot) == \A i \in 1..Len(slot.text) : slot.text[i] \notin {"<", ">"}

\* C8: no text taken from the error payload (error type, message, traceback,
\* file_path, full_path) is in the panel's markup unescaped: none of the
\* inserted texts contains a raw '<' or '>'.
C8_PayloadEscaped ==
    \A w \in Widgets :
        errorInnerHTML[w].filled
            => /\ NoRawMarkup(errorInnerHTML[w].errorType)
               /\ NoRawMarkup(errorInnerHTML[w].errorMessage)
               /\ NoRawMarkup(errorInnerHTML[w].traceback)
               /\ NoRawMarkup(errorInnerHTML[w].requestedPath)
               /\ NoRawMarkup(errorInnerHTML[w].fullPath)

\* C9: dispose() is idempotent and safe without a resource: a call on a
\* disposed widget changes nothing of the widget or the URL store, no URL is
\* ever released twice, and a call on a widget that created no object URL
\* (Loading or Failed) releases nothing and raises no error.
C9_DisposeIdempotent ==
    [][\A w \in Widgets :
        disposeCalls'[w] # disposeCalls[w]
            => /\ disposed'[w]
               /\ disposed[w] => /\ urlStore' = urlStore
                                 /\ Display(w)' = Display(w)
                                 /\ <<pc, requests, ready, unhandled, iframeSrc>>'
                                      = <<pc, requests, ready, unhandled, iframeSrc>>
               /\ UrlsOf(w) = {} => /\ urlStore' = urlStore
                                    /\ unhandled' = unhandled
               /\ \A i \in 1..Len(urlStore') : urlStore'[i].revoked <= 1]_vars

\* C9 witness: dispose() called twice on a Rendered widget, and called on a
\* Failed widget and on a widget still Loading.
C9_Witness ==
    \E w, v \in Widgets :
        /\ ViewerState(w) = "Rendered" /\ disposeCalls[w] >= 2
        /\ ViewerState(v) \in {"Failed", "Loading"} /\ disposed[v]

\* C10: _base64ToBlob of the base64 encoding of a byte sequence is a blob of
\* exactly those bytes, with the content type that was passed in.
C10_Base64RoundTrip ==
    /\ stage # "threw"
    /\ stage = "decoded" => /\ Len(blobOut.bytes) = Len(bytesIn)
                            /\ \A i \in 1..Len(bytesIn) : blobOut.bytes[i] = bytesIn[i]
                            /\ blobOut.type = typeIn

\* C10 witness: three bytes, the largest among them, decoded as a PDF blob.
C10_Witness ==
    /\ stage = "decoded"
    /\ Len(bytesIn) >= 3
    /\ \E i \in 1..Len(bytesIn) : bytesIn[i] = 255
    /\ typeIn = "application/pdf"

\* the text s with every character that has an entry in entities replaced
\* by that entry and every other character kept
RECURSIVE Replacing(_, _)
Replacing(s, entities) ==
    IF s = <<>> THEN <<>>
    ELSE (IF s[1] \in DOMAIN entities THEN entities[s[1]] ELSE <<s[1]>>)
         \o Replacing(Tail(s), entities)

MarkupEntities ==
    [c \in {"&", "<", ">"} |->
        CASE c = "&" -> <<"&","a","m","p",";">>
          [] c = "<" -> <<"&","l","t",";">>
          [] c = ">" -> <<"&","g","t",";">>]

SerialisedEntities ==
    [c \in {"&", "<", ">", NBSP} |->
        IF c = NBSP THEN <<"&","n","b","s","p",";">> ELSE MarkupEntities[c]]

NoRawAngle(html) == \A i \in 1..Len(html) : html[i] \notin {"<", ">"}

\* C11 (as stated): for every input string, _escapeHtml replaces each "&" by
\* "&amp;", each "<" by "&lt;" and each ">" by "&gt;" and leaves every other
\* character, double quotes included, unchanged, so that its output holds no
\* raw "<" or ">".
C11_OnlyMarkupReplaced ==
    escStage = "escaped"
        => /\ htmlOut = Replacing(textIn, MarkupEntities)
           /\ NoRawAngle(htmlOut)

\* C11 (amended): for every input string, _escapeHtml replaces each "&" by
\* "&amp;", each "<" by "&lt;", each ">" by "&gt;" and each no-break space
\* U+00A0 by "&nbsp;", and leaves every other character, double quotes
\* included, unchanged, so that its output holds no raw "<" or ">".
C11_SerialisedAsText ==
    escStage = "escaped"
        => /\ htmlOut = Replacing(textIn, SerialisedEntities)
           /\ NoRawAngle(htmlOut)

\* a text with markup, a double quote and a no-break space has been escaped
C11_Witness ==
    /\ escStage = "escaped"
    /\ textIn = <<"<", "\"", NBSP>>
    /\ htmlOut = <<"&","l","t",";", "\"", "&","n","b","s","p",";">>

\* C12: when the failure payload the widget shows carries file_path, the
\* Failed panel shows that requested path; the path-debug block is present
\* exactly when file_path or full_path is present, and the collapsible
\* traceback section is present exactly when traceback is non-empty.
C12_PathAndSectionsShown ==
    \A w \in Widgets :
        errorInnerHTML[w].filled
            => LET error == shownError[w]
                   panel == errorInnerHTML[w]
               IN /\ Truthy(Get(error, "file_path"))
                        => /\ panel.requestedPath.present
                           /\ DisplayedText(panel.requestedPath.text)
                                  = Get(error, "file_path").s
                  /\ panel.debugInfo <=> (\/ Truthy(Get(error, "file_path"))
                                          \/ Truthy(Get(error, "full_path")))
                  /\ panel.traceback.present <=> Truthy(Get(error, "traceback"))

\* everything widget w holds: its fields, its promise, its request and the
\* store entries of the object URLs it created
OwnUrls(w) == {<<i, urlStore[i]>> : i \in UrlsOf(w)}
PerWidget(w) == <<pc[w], requests[w], outcome[w], Display(w), iframeSrc[w], ready[w],
                  unhandled[w], disposed[w], disposeCalls[w], shownError[w],
                  settleCalls[w], OwnUrls(w)>>
\* what w displays and holds, leaving out which URL and which path are its own
Presentation(w) == <<iframeSrcdoc[w], iframeDisplay[w], errorDisplay[w],
                     errorInnerHTML[w], nodeChildren[w], embed[w].type,
                     StartsWithBlob(embed[w].src), ready[w], disposed[w],
                     {<<e[2].blob, e[2].revoked>> : e \in OwnUrls(w)}>>

\* C13: with two or more widgets open, in every interleaving of responses,
\* failures and dispose calls, a step changes the state of one widget only;
\* what a widget displays and holds is determined by its own outcome and its
\* own dispose calls; and no object URL belongs to more than one widget.
C13_WidgetsIndependent ==
    /\ [][\A w, v \in Widgets :
            w # v => \/ PerWidget(w)' = PerWidget(w)
                     \/ PerWidget(v)' = PerWidget(v)]_vars
    /\ [](\A w, v \in Widgets :
            (/\ pc[w] = pc[v]
             /\ outcome[w] = outcome[v]
             /\ disposeCalls[w] = disposeCalls[v]) => Presentation(w) = Presentation(v))
    /\ [](\A w \in Widgets :
            StartsWithBlob(embed[w].src)
                => /\ embed[w].src.id \in UrlsOf(w)
                   /\ \A v \in Widgets \ {w} : embed[v].src # embed[w].src)

\* two widgets both Rendered, from different responses orders: each holds its
\* own URL, and one of them has been disposed
C13_Witness ==
    \E w, v \in Widgets :
        /\ w # v
        /\ ViewerState(w) = "Rendered" /\ ViewerState(v) = "Rendered"
        /\ embed[w].src # embed[v].src
        /\ disposed[w] /\ ~disposed[v]

\* the file type of that name the plugin itself added to the registry
AddedByPlugin(n) ==
    \E i \in 1..Len(fileTypes) :
        fileTypes[i].name = n /\ fileTypes[i].displayName # OtherPlugin

\* C14: after activation the Document Reader factory is registered as the
\* default, read-only viewer of exactly the file types docx, doc and rtf
\* (extensions .docx, .doc, .rtf with their listed media types) and uses the
\* 'base64' model; being read-only it offers no write-back.
C14_DefaultReadOnlyViewer ==
    activatePc = "returned"
        => /\ Len(widgetFactories) = 1
           /\ LET factory == widgetFactories[1]
              IN /\ factory.name = "Document Reader"
                 /\ factory.modelName = "base64"
                 /\ factory.readOnly
                 /\ factory.fileTypes = <<"docx", "doc", "rtf">>
                 /\ factory.defaultFor = <<"docx", "doc", "rtf">>
           /\ \A i \in 1..Len(fileTypes) :
                 fileTypes[i].displayName # OtherPlugin
                     => \/ /\ fileTypes[i].name = "docx"
                           /\ fileTypes[i].extensions = <<".docx">>
                           /\ fileTypes[i].mimeTypes =
                                <<"application/vnd.openxmlformats-officedocument.wordprocessingml.document">>
                        \/ /\ fileTypes[i].name = "doc"
                           /\ fileTypes[i].extensions = <<".doc">>
                           /\ fileTypes[i].mimeTypes = <<"application/msword">>
                        \/ /\ fileTypes[i].name = "rtf"
                           /\ fileTypes[i].extensions = <<".rtf">>
                           /\ fileTypes[i].mimeTypes = <<"application/rtf", "text/rtf">>
           /\ \A n \in {"docx", "doc", "rtf"} : n \in Registered(fileTypes)

\* activated on a registry that held other file types only: the factory is
\* there and the plugin added all three file types
C14_Witness ==
    /\ activatePc = "returned"
    /\ Len(widgetFactories) = 1
    /\ "markdown" \in Registered(fileTypes)
    /\ \A n \in {"docx", "doc", "rtf"} : AddedByPlugin(n)

\* C15: construction leaves the widget in Loading: in every reachable state
\* in which a widget's request has been issued and not yet answered, the
\* loading placeholder is what the widget displays and its error panel is
\* hidden.
C15_LoadingWhileAwaiting ==
    \A w \in Widgets :
        (Len(requests[w]) > 0 /\ outcome[w] = NoOutcome)
            => /\ ShowsPlaceholder(w)
               /\ errorDisplay[w] = "none"
               /\ ~IsChild(w, "embed")
               /\ ViewerState(w) = "Loading"

\* one widget waits for its response while another has failed already
C15_Witness ==
    \E w, v \in Widgets :
        /\ Len(requests[w]) = 1 /\ outcome[w] = NoOutcome /\ ShowsPlaceholder(w)
        /\ ViewerState(v) = "Failed"

\* C16: if the conversion request returns a response or fails, the widget
\* eventually leaves Loading and is Rendered or Failed, with its ready promise
\* settled; a widget is in Loading only while its request is unanswered or
\* its answer has not been taken up yet.
C16_EventuallyLeavesLoading ==
    /\ \A w \in Widgets :
          (outcome[w] # NoOutcome)
              ~> (/\ ViewerState(w) \in {"Rendered", "Failed"}
                  /\ ready[w] \in {"resolved", "rejected"})
    /\ [](\A w \in Widgets : ViewerState(w) = "Loading" => pc[w] = "Awaiting")

\* an answer has arrived for a widget that still shows the placeholder, and
\* another widget has taken up its answer and is Rendered
C16_Witness ==
    \E w, v \in Widgets :
        /\ pc[w] = "Awaiting" /\ outcome[w] # NoOutcome /\ ViewerState(w) = "Loading"
        /\ ViewerState(v) = "Rendered" /\ ready[v] = "resolved"

\* the index of the last "." of path
LastDot(path) == CHOOSE i \in 1..Len(path) :
                     path[i] = "." /\ \A j \in (i + 1)..Len(path) : path[j] # "."
HasDot(path) == \E i \in 1..Len(path) : path[i] = "."
UpperChar(c) ==
    IF \E i \in 1..Len(AsciiLower) : AsciiLower[i] = c
    THEN AsciiUpper[CHOOSE i \in 1..Len(AsciiLower) : AsciiLower[i] = c]
    ELSE c
\* path with the text after its last "." in upper case
WithUpperCaseExtension(path) ==
    [i \in 1..Len(path) |-> IF i > LastDot(path) THEN UpperChar(path[i]) ELSE path[i]]

\* C17: the dispatch key of a path is the lowercased text after its last ".",
\* so that a path and the same path with its extension in upper case give
\* the same key (document.docx and DOCUMENT.DOCX both give "docx", .rtf
\* gives "rtf").
C17_LowercasedLastSegment ==
    (extStage = "detected" /\ HasDot(pathIn))
        => /\ extOut.t = "string"
           /\ Len(extOut.s) = Len(pathIn) - LastDot(pathIn)
           /\ \A i \in 1..Len(extOut.s) :
                 /\ extOut.s[i] \in {pathIn[LastDot(pathIn) + i],
                                     LowerChar(pathIn[LastDot(pathIn) + i])}
                 /\ extOut.s[i] \notin {AsciiUpper[k] : k \in 1..Len(AsciiUpper)}
           /\ extOut = ExtensionOf(WithUpperCaseExtension(pathIn))
           /\ pathIn \in {<<"d","o","c","u","m","e","n","t",".","d","o","c","x">>, <<"D","O","C","U","M","E","N","T",".","D","O","C","X">>} => extOut.s = <<"d","o","c","x">>
           /\ pathIn = <<"/","p","a","t","h","/","t","o","/","d","o","c","u","m","e","n","t",".","r","t","f">> => extOut.s = <<"r","t","f">>

\* the key of DOCUMENT.DOCX has been computed and is "docx"
C17_Witness ==
    /\ extStage = "detected"
    /\ pathIn = <<"D","O","C","U","M","E","N","T",".","D","O","C","X">>
    /\ extOut = Str(<<"d","o","c","x">>)

\* C18: activation tolerates file types that are registered already: for
\* whichever of the three addFileType throws, activate still calls it for
\* the others, still registers the widget factory exactly once for all three
\* type names, and does not throw.
C18_ActivationTolerant ==
    activatePc # "idle"
        => /\ activatePc = "returned"
           /\ attempted = <<"docx", "doc", "rtf">>
           /\ \A n \in {"docx", "doc", "rtf"} :
                 \/ AddedByPlugin(n)
                 \/ \E i \in 1..Len(warnings) : warnings[i] = n
           /\ Len(widgetFactories) = 1
           /\ widgetFactories[1].fileTypes = <<"docx", "doc", "rtf">>
           /\ widgetFactories[1].defaultFor = <<"docx", "doc", "rtf">>

\* addFileType threw for docx and rtf and the plugin added doc after the
\* first throw
C18_Witness ==
    /\ activatePc = "returned"
    /\ warnings = <<"docx", "rtf">>
    /\ AddedByPlugin("doc")
    /\ Len(widgetFactories) = 1

\* C19: the ready promise of a widget is settled exactly once in every
\* execution in which its request completes, and not before: it is resolved
\* if and only if the widget is Rendered and rejected if and only if it is
\* Failed, never both and never twice.
C19_ReadySettledOnce ==
    \A w \in Widgets :
        /\ outcome[w] = NoOutcome => (ready[w] = "pending" /\ settleCalls[w] = 0)
        /\ outcome[w] # NoOutcome
              => (ready[w] \in {"resolved", "rejected"} /\ settleCalls[w] = 1)
        /\ ready[w] = "resolved" <=> ViewerState(w) = "Rendered"
        /\ ready[w] = "rejected" <=> ViewerState(w) = "Failed"

\* one widget Rendered with its promise resolved by one call, another Failed
\* with its promise rejected by one call, both disposed afterwards
C19_Witness ==
    \E w, v \in Widgets :
        /\ ViewerState(w) = "Rendered" /\ ready[w] = "resolved" /\ settleCalls[w] = 1
        /\ ViewerState(v) = "Failed" /\ ready[v] = "rejected" /\ settleCalls[v] = 1
        /\ disposed[w] /\ disposed[v]

\* C20: Rendered is reached only for a response whose success is truthy and
\* whose pdf_data is non-empty and valid base64: a response with success:true
\* and pdf_data missing, empty or not decodable ends in Failed and creates
\* no object URL.
C20_RenderedOnlyForValidPdf ==
    \A w \in Widgets :
        /\ ViewerState(w) = "Rendered"
              => /\ GotResponse(w)
                 /\ Truthy(SuccessFlag(w))
                 /\ PdfData(w).t = "string" /\ PdfData(w).s # <<>>
                 /\ AtobAccepts(PdfData(w).s)
        /\ (/\ GotResponse(w)
            /\ Truthy(SuccessFlag(w))
            /\ \/ PdfData(w).t # "string"
               \/ PdfData(w).s = <<>>
               \/ ~AtobAccepts(PdfData(w).s))
              => /\ ViewerState(w) = "Failed"
                 /\ UrlsOf(w) = {}
                 /\ embed[w] = NoEmbed

\* a response with success:true and undecodable pdf_data and one with empty
\* pdf_data have both ended in Failed without any object URL
C20_Witness ==
    \E w, v \in Widgets :
        /\ outcome[w] = [kind |-> "response", value |-> RespOkCorrupt]
        /\ outcome[v] = [kind |-> "response", value |-> RespOkEmpty]
        /\ ViewerState(w) = "Failed" /\ ViewerState(v) = "Failed"
        /\ urlStore = <<>>

\* C21: in every reachable state a widget has created an object URL only if
\* it is Rendered: no widget that created an object URL is Failed (or still
\* Loading), and no widget has created more than one object URL.
C21_UrlOnlyWhenRendered ==
    \A w \in Widgets :
        /\ UrlsOf(w) # {} => ViewerState(w) = "Rendered"
        /\ ViewerState(w) \in {"Idle", "Loading", "Failed"} => UrlsOf(w) = {}
        /\ Cardinality(UrlsOf(w)) <= 1
        /\ ViewerState(w) = "Rendered" => UrlsOf(w) = {embed[w].src.id}

\* every widget is Rendered and holds the one URL it created, while the
\* store holds as many URLs as there are widgets
C21_Witness ==
    /\ \A w \in Widgets :
          ViewerState(w) = "Rendered" /\ Cardinality(UrlsOf(w)) = 1
    /\ Len(urlStore) = NumWidgets

\* the three presentations, read from the elements
PlaceholderVisible(w) ==
    /\ IsChild(w, "iframe")
    /\ iframeDisplay[w] # "none"
    /\ iframeSrcdoc[w] = LoadingPlaceholder
EmbedVisible(w) == IsChild(w, "embed")
ErrorPanelVisible(w) == IsChild(w, "errorDiv") /\ errorDisplay[w] # "none"
Visible(w) == {p \in {"placeholder", "embed", "error"} :
                  \/ p = "placeholder" /\ PlaceholderVisible(w)
                  \/ p = "embed" /\ EmbedVisible(w)
                  \/ p = "error" /\ ErrorPanelVisible(w)}

\* C22: in every reachable state at most one of the three presentations is
\* visible: the loading placeholder, the PDF embed (then the only child of
\* the widget's node) or the error panel (then with the iframe hidden); the
\* error panel is not visible while the request is unanswered nor after a
\* render.
C22_OnePresentation ==
    \A w \in Widgets :
        pc[w] # "Idle"
            => /\ Cardinality(Visible(w)) <= 1
               /\ EmbedVisible(w) => nodeChildren[w] = <<"embed">>
               /\ ErrorPanelVisible(w) => iframeDisplay[w] = "none"
               /\ (outcome[w] = NoOutcome \/ ready[w] = "resolved")
                     => ~ErrorPanelVisible(w)

\* one widget shows the embed alone, another the error panel alone, each
\* after having shown the placeholder
C22_Witness ==
    \E w, v \in Widgets :
        /\ Visible(w) = {"embed"} /\ nodeChildren[w] = <<"embed">>
        /\ Visible(v) = {"error"} /\ iframeDisplay[v] = "none"

\* the message and the type a reader sees in the panel
MessageDisplayed == DisplayedText(panelOut.errorMessage.text)
TypeDisplayed == DisplayedText(panelOut.errorType.text)

\* the message and the type the fixed priority selects for the argument
MessageByPriority ==
    CASE Truthy(Get(errorArg, "error")) -> Get(errorArg, "error").s
      [] ~Truthy(Get(errorArg, "error")) /\ Truthy(Get(errorArg, "message"))
            -> Get(errorArg, "message").s
      [] ~Truthy(Get(errorArg, "error")) /\ ~Truthy(Get(errorArg, "message"))
         /\ ~IsObject(errorArg) -> errorArg.s
      [] OTHER -> JSONStringify(errorArg).s
TypeByPriority ==
    IF Truthy(Get(errorArg, "error_type")) THEN Get(errorArg, "error_type").s
    ELSE sError

\* C23 (as stated): for every error value passed to _showError the message
\* displayed is its 'error' field if truthy, else its 'message' field if
\* truthy, else the value itself if a string, else its JSON serialisation,
\* and the type displayed is its 'error_type' if truthy and 'Error'
\* otherwise; in particular a request rejection whose message is not
\* parseable JSON is displayed with that raw message and type 'Error'.
C23_MessageByPriority ==
    showStage = "shown"
        => /\ MessageDisplayed = MessageByPriority
           /\ TypeDisplayed = TypeByPriority
           /\ (viaRejection /\ ~JSONParse(Get(errorIn, "message").s).ok)
                 => /\ MessageDisplayed = Get(errorIn, "message").s
                    /\ TypeDisplayed = sError

\* C23 (amended): the same, the last part for a request rejection whose
\* message is non-empty and not parseable JSON.
C23_NonEmptyRawMessage ==
    showStage = "shown"
        => /\ MessageDisplayed = MessageByPriority
           /\ TypeDisplayed = TypeByPriority
           /\ (/\ viaRejection
               /\ Get(errorIn, "message").s # <<>>
               /\ ~JSONParse(Get(errorIn, "message").s).ok)
                 => /\ MessageDisplayed = Get(errorIn, "message").s
                    /\ TypeDisplayed = sError

\* the rejection with the server's HTML error page as its message has been
\* shown with that text and type 'Error'
C23_Witness ==
    /\ showStage = "shown"
    /\ viaRejection
    /\ errorIn = ErrText
    /\ MessageDisplayed = sServerError
    /\ TypeDisplayed = sError

\* the methods called on the model so far
MethodsCalled == {modelCalls[i].method : i \in 1..Len(modelCalls)}

\* C24: after any sequence of fromString, fromJSON, initialize and dispose
\* calls with any arguments, dirty is false, readOnly is true, toString()
\* returns '' and toJSON() returns {}, and neither contentChanged nor
\* stateChanged has been emitted.
C24_NeverLoadsContent ==
    /\ DocModel_dirty = FALSE
    /\ DocModel_readOnly = TRUE
    /\ DocModel_toString = <<>>
    /\ JSONStringify(DocModel_toJSON) = Str(<<"{", "}">>)
    /\ contentChangedEmits = 0
    /\ stateChangedEmits = 0

\* a non-empty text has been handed to fromString, a response to fromJSON,
\* and the model has been disposed
C24_Witness ==
    /\ Called("fromString", Str(sOops)) \in {modelCalls[i] : i \in 1..Len(modelCalls)}
    /\ Called("fromJSON", RespOk) \in {modelCalls[i] : i \in 1..Len(modelCalls)}
    /\ "dispose" \in MethodsCalled
    /\ contentChangedEmits = 0
    /\ DocModel_toString = <<>>

\* C25: isDisposed is false before dispose() has been called and true in
\* every state after dispose() has been called.
C25_IsDisposedReportsDisposal ==
    DocModel_isDisposed <=> "dispose" \in MethodsCalled

====
